---- MODULE Spec2Model ----
(***************************************************************************)
(* Jobkonnect backend: the entity operations of db_operations.py over the  *)
(* Job and Application tables, login_user over the User table, and the     *)
(* JWT gate of jwtfunc.py (generate_token, token_required).                *)
(*                                                                         *)
(* Requests are served concurrently, so an operation that reads the store, *)
(* computes and then commits is split at the point where another request's *)
(* commit can fall between its read and its own commit.                    *)
(***************************************************************************)
EXTENDS Integers, Sequences, FiniteSets, TLC

VARIABLES
    jobs,          \* the Job table: a set of rows [id, employer_id]
    applications,  \* the Application table: rows [id, job_id, employer_id, user_id, status]
    nextJobId,     \* autoincrement primary key of Job
    nextAppId,     \* autoincrement primary key of Application
    pc,            \* pc[p]: where request p stands inside its operation
    loc,           \* loc[p]: the locals request p carries between its steps
    ret,           \* how the operation that ended last ended: [op, kind, val, id, arg]
    leaked,        \* sessions whose operation ended without session.close()
    users,         \* the User table: rows [email, password_hash], row i with primary key i
    clock,         \* utcnow, in ticks of 1/TicksPerSec second
    issued,        \* the tokens generate_token has handed out
    gate           \* what the last call of a token_required-wrapped operation did

vars == <<jobs, applications, nextJobId, nextAppId, pc, loc, ret, leaked,
          users, clock, issued, gate>>

storeVars == <<jobs, applications, nextJobId, nextAppId, pc, loc, ret, leaked>>
tokenVars == <<clock, issued, gate>>

----------------------------------------------------------------------------
(* Bounds *)

NumProcs == 2
MaxJobs == 2
MaxApps == 2
MaxUsers == 2
MaxLeaked == 1

Procs == 1 .. NumProcs
JobIds == 1 .. MaxJobs
AppIds == 1 .. MaxApps
UserIds == 1 .. MaxUsers
\* status is free text to the store; one value of it is modelled.
Statuses == {"pending"}

----------------------------------------------------------------------------
(* The store *)

NoData == [job_id |-> 0, employer_id |-> 0, user_id |-> 0, status |-> ""]
NoLoc == [data |-> NoData, rows |-> {}]
NoArg == [email |-> "", password |-> ""]
NoRet == [op |-> "", kind |-> "none", val |-> "", id |-> 0, arg |-> NoArg]

\* The operation op returned val / raised exc to its caller.
Return(op, val) == [op |-> op, kind |-> "return", val |-> val, id |-> 0, arg |-> NoArg]
Raise(op, exc) == [op |-> op, kind |-> "raise", val |-> exc, id |-> 0, arg |-> NoArg]

\* A session that is never closed stays open after its operation has ended; the
\* model counts such sessions up to MaxLeaked.
Leak(n) == IF n < MaxLeaked THEN n + 1 ELSE n

\* session.query(Job).get(job_id)
JobGet(js, job_id) == {j \in js : j.id = job_id}

\* session.query(Application).get(application_id)
ApplicationGet(apps, application_id) == {a \in apps : a.id = application_id}

\* session.query(Application).filter_by(user_id=..., job_id=...)
ApplicationsOf(apps, user_id, job_id) ==
    {a \in apps : a.user_id = user_id /\ a.job_id = job_id}

\* session.query(Application).filter(Application.job_id == job_id).all()
RelatedApplications(apps, job_id) == {a \in apps : a.job_id = job_id}

\* The Application table as the spec describes it: rows refer to jobs and users "by
\* identifier reference", uniqueness of (user_id, job_id) is "not a store-level unique
\* constraint", and the cascade is "enforced in-core, not by the store": the store
\* accepts every row.
ApplicationTableAccepts(row, apps, js) == TRUE

Idle(p) == pc[p] = "idle"

InitStore ==
    /\ jobs = {}
    /\ applications = {}
    /\ nextJobId = 1
    /\ nextAppId = 1
    /\ pc = [p \in Procs |-> "idle"]
    /\ loc = [p \in Procs |-> NoLoc]
    /\ ret = NoRet
    /\ leaked = 0

----------------------------------------------------------------------------
(* Job operations *)

\* The employers that post jobs: in the model, the one with the least id.
JobOwners == {e \in UserIds : \A u \in UserIds : e <= u}
JobData == [employer_id : JobOwners]
CreateJobFailures == {"none", "KeyError", "SessionLocal", "commit"}

\* create_job(data). fail names what goes wrong: a required key missing from data,
\* SessionLocal() raising, session.add/commit raising, or nothing. The except clause
\* calls session.rollback(), and session is bound only once SessionLocal() returned.
\* The session is never closed.
create_job(p, data, fail) ==
    /\ Idle(p)
    /\ UNCHANGED <<applications, nextAppId, pc, loc>>
    /\ CASE fail \in {"KeyError", "SessionLocal"} ->
              /\ ret' = Raise("create_job", "UnboundLocalError")
              /\ UNCHANGED <<jobs, nextJobId, leaked>>
         [] fail = "commit" ->
              /\ ret' = Return("create_job", "None")
              /\ leaked' = Leak(leaked)
              /\ UNCHANGED <<jobs, nextJobId>>
         [] fail = "none" ->
              /\ nextJobId <= MaxJobs
              /\ jobs' = jobs \cup {[id |-> nextJobId, employer_id |-> data.employer_id]}
              /\ nextJobId' = nextJobId + 1
              /\ ret' = Return("create_job", "id")
              /\ leaked' = Leak(leaked)

\* delete_job(job_id), up to the point where its reads are done: the job looked up and,
\* when found, its related applications loaded into the session. Not found: False, and
\* the session is closed in finally.
delete_job_begin(p, job_id) ==
    /\ Idle(p)
    /\ UNCHANGED <<jobs, applications, nextJobId, nextAppId, leaked>>
    /\ IF JobGet(jobs, job_id) = {}
       THEN /\ ret' = Return("delete_job", "False")
            /\ UNCHANGED <<pc, loc>>
       ELSE /\ pc' = [pc EXCEPT ![p] = "dj_commit"]
            /\ loc' = [loc EXCEPT ![p] =
                          [data |-> [NoData EXCEPT !.job_id = job_id],
                           rows |-> {a.id : a \in RelatedApplications(applications, job_id)}]]
            /\ UNCHANGED ret

\* delete_job(job_id), the flush and commit: the loaded applications and the job are
\* deleted by primary key; on SQLAlchemyError the session is rolled back. The session is
\* closed in finally.
delete_job_commit(p, ok) ==
    /\ pc[p] = "dj_commit"
    /\ pc' = [pc EXCEPT ![p] = "idle"]
    /\ loc' = [loc EXCEPT ![p] = NoLoc]
    /\ UNCHANGED <<nextJobId, nextAppId, leaked>>
    /\ IF ok
       THEN /\ applications' = {a \in applications : a.id \notin loc[p].rows}
            /\ jobs' = {j \in jobs : j.id # loc[p].data.job_id}
            /\ ret' = Return("delete_job", "True")
       ELSE /\ ret' = Return("delete_job", "False")
            /\ UNCHANGED <<jobs, applications>>

----------------------------------------------------------------------------
(* Application operations *)

ApplicationData == [job_id : JobIds, employer_id : UserIds, user_id : UserIds,
                    status : Statuses]
\* The data of update_application_status: a status, or "" for data without the key.
StatusData == Statuses \cup {""}
Roles == {"employer", "job_seeker"}

\* How many requests stand between create_application's existence check and its insert.
Inserting == Cardinality({q \in Procs : pc[q] = "ca_insert"})

\* create_application(data), the existence check: a session is opened and the
\* (user_id, job_id) pair looked up; a hit raises ValueError. The session is never closed.
create_application_check(p, data) ==
    /\ Idle(p)
    /\ UNCHANGED <<jobs, applications, nextJobId, nextAppId>>
    /\ IF ApplicationsOf(applications, data.user_id, data.job_id) # {}
       THEN /\ ret' = Raise("create_application", "ValueError")
            /\ leaked' = Leak(leaked)
            /\ UNCHANGED <<pc, loc>>
       ELSE /\ nextAppId + Inserting <= MaxApps
            /\ pc' = [pc EXCEPT ![p] = "ca_insert"]
            /\ loc' = [loc EXCEPT ![p] = [data |-> data, rows |-> {}]]
            /\ UNCHANGED <<ret, leaked>>

\* create_application(data), session.add and session.commit: the row is built from data
\* alone, employer_id included. A failing commit raises; nothing rolls back or closes.
create_application_insert(p, ok) ==
    /\ pc[p] = "ca_insert"
    /\ pc' = [pc EXCEPT ![p] = "idle"]
    /\ loc' = [loc EXCEPT ![p] = NoLoc]
    /\ leaked' = Leak(leaked)
    /\ UNCHANGED <<jobs, nextJobId>>
    /\ LET row == [id |-> nextAppId, job_id |-> loc[p].data.job_id,
                   employer_id |-> loc[p].data.employer_id,
                   user_id |-> loc[p].data.user_id, status |-> loc[p].data.status]
       IN IF ok /\ ApplicationTableAccepts(row, applications, jobs)
          THEN /\ applications' = applications \cup {row}
               /\ nextAppId' = nextAppId + 1
               /\ ret' = Return("create_application", "Application")
          ELSE /\ ret' = Raise("create_application", "SQLAlchemyError")
               /\ UNCHANGED <<applications, nextAppId>>

\* The rows get_applications(user_id, role) selects.
ApplicationsFor(apps, user_id, role) ==
    IF role = "employer"
    THEN {a \in apps : a.employer_id = user_id}
    ELSE {a \in apps : a.user_id = user_id}

\* get_applications(user_id, role): a query; closes its session in finally.
get_applications(p, user_id, role) ==
    /\ Idle(p)
    /\ ret' = Return("get_applications",
                     IF ApplicationsFor(applications, user_id, role) = {}
                     THEN "empty" ELSE "rows")
    /\ UNCHANGED <<jobs, applications, nextJobId, nextAppId, pc, loc, leaked>>

\* update_application_status(application_id, data): one transaction on one row; only
\* the status is written, and only when data carries it. Closes its session in finally.
update_application_status(p, application_id, status, ok) ==
    /\ Idle(p)
    /\ UNCHANGED <<jobs, nextJobId, nextAppId, pc, loc, leaked>>
    /\ IF ApplicationGet(applications, application_id) = {}
       THEN /\ ret' = Return("update_application_status", "None")
            /\ UNCHANGED applications
       ELSE IF ok
       THEN /\ applications' =
                  {IF a.id = application_id /\ status # "" THEN [a EXCEPT !.status = status]
                   ELSE a : a \in applications}
            /\ ret' = Return("update_application_status", "dict")
       ELSE /\ ret' = Return("update_application_status", "None")
            /\ UNCHANGED applications

\* delete_application(application_id), the lookup through get_application_by_id, which
\* opens and closes a session of its own.
delete_application_lookup(p, application_id) ==
    /\ Idle(p)
    /\ UNCHANGED <<jobs, applications, nextJobId, nextAppId, leaked>>
    /\ IF ApplicationGet(applications, application_id) = {}
       THEN /\ ret' = Return("delete_application", "False")
            /\ UNCHANGED <<pc, loc>>
       ELSE /\ pc' = [pc EXCEPT ![p] = "da_delete"]
            /\ loc' = [loc EXCEPT ![p] = [data |-> NoData, rows |-> {application_id}]]
            /\ UNCHANGED ret

\* delete_application(application_id), the delete in a second session and its commit.
\* That session is never closed; a failing commit raises.
delete_application_delete(p, ok) ==
    /\ pc[p] = "da_delete"
    /\ pc' = [pc EXCEPT ![p] = "idle"]
    /\ loc' = [loc EXCEPT ![p] = NoLoc]
    /\ leaked' = Leak(leaked)
    /\ UNCHANGED <<jobs, nextJobId, nextAppId>>
    /\ IF ok
       THEN /\ applications' = {a \in applications : a.id \notin loc[p].rows}
            /\ ret' = Return("delete_application", "True")
       ELSE /\ ret' = Raise("delete_application", "SQLAlchemyError")
            /\ UNCHANGED applications

----------------------------------------------------------------------------
(* The users, the clock and the gate stand still while the store is exercised. *)

NoIdentity == [id |-> 0, username |-> "", role |-> ""]
NoHeader == [present |-> FALSE, text |-> <<>>]
\* No request has passed the gate yet.
NoGate == [made |-> FALSE, header |-> NoHeader, now |-> 0, error |-> "", status |-> 0,
           calls |-> <<>>, returned |-> NoIdentity]

InitRest ==
    /\ users = <<>>
    /\ clock = 0
    /\ issued = {}
    /\ gate = NoGate

Init == InitStore /\ InitRest

\* What the store operations leave alone.
RestUnchanged == UNCHANGED <<users, clock, issued, gate>>

CreateJob ==
    \E p \in Procs, data \in JobData, fail \in CreateJobFailures :
        create_job(p, data, fail) /\ RestUnchanged
DeleteJobBegin ==
    \E p \in Procs, j \in JobIds : delete_job_begin(p, j) /\ RestUnchanged
DeleteJobCommit ==
    \E p \in Procs, ok \in BOOLEAN : delete_job_commit(p, ok) /\ RestUnchanged
CreateApplicationCheck ==
    \E p \in Procs, data \in ApplicationData :
        create_application_check(p, data) /\ RestUnchanged
CreateApplicationInsert ==
    \E p \in Procs, ok \in BOOLEAN : create_application_insert(p, ok) /\ RestUnchanged
GetApplications ==
    \E p \in Procs, u \in UserIds, r \in Roles : get_applications(p, u, r) /\ RestUnchanged
UpdateApplicationStatus ==
    \E p \in Procs, a \in AppIds, s \in StatusData, ok \in BOOLEAN :
        update_application_status(p, a, s, ok) /\ RestUnchanged
DeleteApplicationLookup ==
    \E p \in Procs, a \in AppIds : delete_application_lookup(p, a) /\ RestUnchanged
DeleteApplicationDelete ==
    \E p \in Procs, ok \in BOOLEAN : delete_application_delete(p, ok) /\ RestUnchanged

Next ==
    \/ CreateJob
    \/ DeleteJobBegin
    \/ DeleteJobCommit
    \/ CreateApplicationCheck
    \/ CreateApplicationInsert
    \/ GetApplications
    \/ UpdateApplicationStatus
    \/ DeleteApplicationLookup
    \/ DeleteApplicationDelete

Spec == Init /\ [][Next]_vars

----------------------------------------------------------------------------
(* Properties of the store operations *)

\* The sessions that are open: the leaked ones, and the one each request holds between
\* the steps of create_application (opened before the check) and of delete_job.
OpenSessions ==
    leaked + Cardinality({p \in Procs : pc[p] \in {"ca_insert", "dj_commit"}})

\* C1: in every reachable store state there is at most one Application per
\* (user_id, job_id) pair, concurrent create_application calls included.
C1_OneApplicationPerPair ==
    \A a, b \in applications :
        (a.user_id = b.user_id /\ a.job_id = b.job_id) => a = b

\* C2: a delete_job(j) that found job j and returns True leaves, in the committed
\* store, no Job j and no Application with job_id = j; a delete_job(j) that finds no
\* Job j returns False and leaves both tables as they were.
C2_DeleteJobCascades ==
    [][\A p \in Procs :
          /\ (/\ pc[p] = "dj_commit"
              /\ delete_job_commit(p, TRUE))
             => /\ ret' = Return("delete_job", "True")
                /\ JobGet(jobs', loc[p].data.job_id) = {}
                /\ RelatedApplications(applications', loc[p].data.job_id) = {}
          /\ \A j \in JobIds :
                (JobGet(jobs, j) = {} /\ delete_job_begin(p, j))
                => /\ ret' = Return("delete_job", "False")
                   /\ jobs' = jobs
                   /\ applications' = applications]_vars

\* C5: a create_application for a (user_id, job_id) pair that already has an
\* Application raises ValueError, inserts nothing, and leaves exactly one Application
\* for the pair, its fields unchanged.
C5_DuplicateRejected ==
    [][\A p \in Procs, data \in ApplicationData :
          (/\ ApplicationsOf(applications, data.user_id, data.job_id) # {}
           /\ create_application_check(p, data))
          => /\ ret' = Raise("create_application", "ValueError")
             /\ applications' = applications
             /\ Cardinality(ApplicationsOf(applications', data.user_id, data.job_id)) = 1]_vars

\* C7: create_job never ends by raising: it returns the id of a newly committed Job,
\* or None with no Job persisted.
C7_CreateJobNeverRaises ==
    [][\A p \in Procs, data \in JobData, fail \in CreateJobFailures :
          create_job(p, data, fail)
          => \/ /\ ret' = Return("create_job", "id")
                /\ jobs' = jobs \cup {[id |-> nextJobId, employer_id |-> data.employer_id]}
             \/ /\ ret' = Return("create_job", "None")
                /\ jobs' = jobs]_vars

\* C8: in every reachable store state every Application's job_id is the id of a Job
\* that exists.
C8_NoOrphanApplication ==
    \A a \in applications : JobGet(jobs, a.job_id) # {}

\* C9: in every reachable store state an Application's employer_id is the employer_id
\* of its Job, so that get_applications(e, 'employer') selects exactly the
\* Applications against the Jobs of employer e.
C9_EmployerIdCopiesJobOwner ==
    /\ \A a \in applications : \A j \in JobGet(jobs, a.job_id) :
          a.employer_id = j.employer_id
    /\ \A e \in UserIds :
          {a \in ApplicationsFor(applications, e, "employer") : JobGet(jobs, a.job_id) # {}}
             = {a \in applications : \E j \in JobGet(jobs, a.job_id) : j.employer_id = e}

\* C10: whenever no call is in progress, no session is open.
C10_NoSessionLeftOpen ==
    (\A p \in Procs : Idle(p)) => OpenSessions = 0

----------------------------------------------------------------------------
(* login_user over the User table *)

MaxUserRows == 3

Emails == {"a@example.org", "b@example.org"}
Passwords == {"pw1", "pw2"}

\* User.set_password stores a digest of the password, never the password.
PasswordHash(password) == <<"digest", password>>

\* User.check_password(password): the password verifies against the stored digest.
check_password(user, password) == user.password_hash = PasswordHash(password)

UserRows == [email : Emails, password_hash : {PasswordHash(w) : w \in Passwords}]

\* The User tables login_user may meet: row i has primary key i.
UserTables == UNION {[1 .. n -> UserRows] : n \in 0 .. MaxUserRows}

\* session.query(User).filter_by(email=email)
UsersByEmail(us, email) == {i \in DOMAIN us : us[i].email = email}

\* Query.one(): the single row, or NoResultFound / MultipleResultsFound.
QueryOne(rows) ==
    IF rows = {} THEN [exc |-> "NoResultFound", row |-> 0]
    ELSE IF Cardinality(rows) > 1 THEN [exc |-> "MultipleResultsFound", row |-> 0]
    ELSE [exc |-> "none", row |-> CHOOSE i \in rows : TRUE]

\* A variant of login_user that takes the first matching row, as Query.first() does.
login_user_first_match(us, email, password, fail) ==
    IF fail \/ UsersByEmail(us, email) = {} THEN [val |-> "None", id |-> 0]
    ELSE LET i == CHOOSE k \in UsersByEmail(us, email) :
                     \A m \in UsersByEmail(us, email) : k <= m
         IN IF check_password(us[i], password)
            THEN [val |-> "User", id |-> i]
            ELSE [val |-> "None", id |-> 0]

\* What login_user(email, password) returns: the user when exactly one row has the
\* email and the password verifies; None for NoResultFound, MultipleResultsFound, any
\* other SQLAlchemyError (fail) and a password that does not verify.
login_user_returns(us, email, password, fail) ==
    IF fail THEN [val |-> "None", id |-> 0]
    ELSE LET q == QueryOne(UsersByEmail(us, email))
         IN IF q.exc # "none" THEN [val |-> "None", id |-> 0]
            ELSE IF check_password(us[q.row], password)
            THEN [val |-> "User", id |-> q.row]
            ELSE [val |-> "None", id |-> 0]

\* login_user(email, password): a query; the session is never closed.
login_user(email, password, fail) ==
    /\ ret' = [op |-> "login_user", kind |-> "return",
               val |-> login_user_returns(users, email, password, fail).val,
               id |-> login_user_returns(users, email, password, fail).id,
               arg |-> [email |-> email, password |-> password]]
    /\ leaked' = Leak(leaked)
    /\ UNCHANGED <<users, jobs, applications, nextJobId, nextAppId, pc, loc>>
    /\ UNCHANGED tokenVars

InitLogin ==
    /\ InitStore
    /\ users \in UserTables
    /\ clock = 0
    /\ issued = {}
    /\ gate = NoGate

LoginUser ==
    \E email \in Emails, password \in Passwords, fail \in BOOLEAN :
        login_user(email, password, fail)

NextLogin == LoginUser

SpecLogin == InitLogin /\ [][NextLogin]_vars

\* C6: login_user returns None, and never raises, when no User has the email, when the
\* one User with the email has another password, and when more than one User has the
\* email; it returns a User only when exactly one User has the email and the password
\* verifies; and it never changes the store.
C6_LoginNoneOnFailure ==
    [][\A email \in Emails, password \in Passwords, fail \in BOOLEAN :
          login_user(email, password, fail)
          => LET m == UsersByEmail(users, email)
                 verified == {i \in m : users[i].password_hash = PasswordHash(password)}
             IN /\ ret'.kind = "return"
                /\ (Cardinality(m) = 0 \/ Cardinality(m) > 1 \/ verified = {})
                      => (ret'.val = "None" /\ ret'.id = 0)
                /\ ret'.val # "None"
                      => (ret'.val = "User" /\ Cardinality(m) = 1 /\ ret'.id \in verified)
                /\ users' = users
                /\ jobs' = jobs
                /\ applications' = applications]_vars

\* A login that came back None although one of several Users with the email has the
\* password.
C6_Witness ==
    /\ ret.op = "login_user"
    /\ ret.val = "None"
    /\ Cardinality(UsersByEmail(users, ret.arg.email)) > 1
    /\ \E i \in UsersByEmail(users, ret.arg.email) :
          check_password(users[i], ret.arg.password)

----------------------------------------------------------------------------
(* The token service and the access-control gate *)

TicksPerSec == 2
SecondsPerHour == 3600
TokenLifetimeHours == 1
Unauthorized == 401
MaxEarly == 1
MaxIssued == 1

\* timedelta(hours=1), in ticks.
LifetimeTicks == TokenLifetimeHours * SecondsPerHour * TicksPerSec

\* The instants of the model: the first ticks, when tokens are issued, and the ticks
\* around the expiry of those tokens.
ClockValues == (0 .. MaxEarly) \cup ((LifetimeTicks - 1) .. (LifetimeTicks + MaxEarly + 1))

Identities == {[id |-> 1, username |-> "seeker", role |-> "job_seeker"],
               [id |-> 2, username |-> "acme", role |-> "employer"]}

NoPayload == [id |-> 0, username |-> "", role |-> "", exp |-> 0]
NoToken == [kind |-> "none", payload |-> NoPayload, sig |-> ""]
\* A string that is no JWT.
Garbage == [kind |-> "garbage", payload |-> NoPayload, sig |-> ""]

\* jwt.encode(payload, secret_key, algorithm='HS256'): the exp datetime is written as
\* whole seconds since the epoch, and the token is signed with the secret key.
jwt_encode(user_id, username, role, expiration) ==
    [kind |-> "jwt",
     payload |-> [id |-> user_id, username |-> username, role |-> role,
                  exp |-> expiration \div TicksPerSec],
     sig |-> "good"]

\* generate_token(user_id, username, role): the token and the expiration it returns.
generate_token(user_id, username, role) ==
    /\ Cardinality(issued) < MaxIssued
    /\ LET expiration == clock + LifetimeTicks
       IN issued' = issued \cup {[token |-> jwt_encode(user_id, username, role, expiration),
                                  expiration |-> expiration]}
    /\ UNCHANGED <<clock, gate, users>>
    /\ UNCHANGED storeVars

\* A token whose payload was rewritten by someone without the secret key.
Tamper(token) ==
    [token EXCEPT !.payload.role = "employer", !.sig = "bad"]

\* A variant of jwt.decode that does not verify the exp claim.
jwt_decode_no_exp(token, now) ==
    IF token.kind # "jwt" \/ token.sig # "good"
    THEN [exc |-> "InvalidTokenError", data |-> NoPayload]
    ELSE [exc |-> "none", data |-> token.payload]

\* jwt.decode(token, secret_key, algorithms=['HS256']) at the instant now, as PyJWT 2
\* does it: the signature is verified first, then the exp claim, which has expired
\* when exp <= now, now being the clock with its fraction of a second.
jwt_decode(token, now) ==
    IF token.kind # "jwt" \/ token.sig # "good"
    THEN [exc |-> "InvalidTokenError", data |-> NoPayload]
    ELSE IF token.payload.exp * TicksPerSec <= now
    THEN [exc |-> "ExpiredSignatureError", data |-> NoPayload]
    ELSE [exc |-> "none", data |-> token.payload]

\* The words a header is made of: a scheme, a run of whitespace, or a token.
Word(s) == [s |-> s, tok |-> NoToken]
Space == Word(" ")
TokenWord(token) == [s |-> "", tok |-> token]
Schemes == {"Bearer", "bearer", "BEARER", "Basic"}

\* str.split(): the parts between runs of whitespace.
Split(text) == SelectSeq(text, LAMBDA w : w # Space)

\* str.lower()
Lower(w) ==
    IF w.tok # NoToken THEN "<token>"
    ELSE IF w.s \in {"Bearer", "bearer", "BEARER"} THEN "bearer"
    ELSE IF w.s = "Basic" THEN "basic"
    ELSE w.s

\* The token a part of the header is read as.
WordToken(w) == IF w.tok # NoToken THEN w.tok ELSE Garbage

\* The route a gate wraps: it answers with the identity it was called with.
WrappedOperation(current_user) == current_user

Rejected(header, now, error) ==
    [made |-> TRUE, header |-> header, now |-> now, error |-> error,
     status |-> Unauthorized, calls |-> <<>>, returned |-> NoIdentity]

\* A variant of decorated that accepts any authentication scheme.
decorated_any_scheme(header, now) ==
    IF ~header.present \/ header.text = <<>>
    THEN Rejected(header, now, "Authorization header is missing!")
    ELSE LET parts == Split(header.text)
         IN IF Len(parts) # 2
            THEN Rejected(header, now, "Invalid token format!")
            ELSE LET d == jwt_decode(WordToken(parts[2]), now)
                     current_user == [id |-> d.data.id, username |-> d.data.username,
                                      role |-> d.data.role]
                 IN IF d.exc = "ExpiredSignatureError"
                    THEN Rejected(header, now, "Token has expired!")
                    ELSE IF d.exc = "InvalidTokenError"
                    THEN Rejected(header, now, "Invalid token!")
                    ELSE [made |-> TRUE, header |-> header, now |-> now, error |-> "",
                          status |-> 0, calls |-> <<current_user>>,
                          returned |-> WrappedOperation(current_user)]

\* token_required(f).decorated at the instant now, for a request with this
\* Authorization header: what it answers, and the calls of f it made.
decorated(header, now) ==
    IF ~header.present \/ header.text = <<>>
    THEN Rejected(header, now, "Authorization header is missing!")
    ELSE LET parts == Split(header.text)
         IN IF Len(parts) # 2 \/ Lower(parts[1]) # "bearer"
            THEN Rejected(header, now, "Invalid token format!")
            ELSE LET d == jwt_decode(WordToken(parts[2]), now)
                     current_user == [id |-> d.data.id, username |-> d.data.username,
                                      role |-> d.data.role]
                 IN IF d.exc = "ExpiredSignatureError"
                    THEN Rejected(header, now, "Token has expired!")
                    ELSE IF d.exc = "InvalidTokenError"
                    THEN Rejected(header, now, "Invalid token!")
                    ELSE [made |-> TRUE, header |-> header, now |-> now, error |-> "",
                          status |-> 0, calls |-> <<current_user>>,
                          returned |-> WrappedOperation(current_user)]

\* The tokens a client can send: the issued ones, rewritten ones, and strings that
\* are no tokens.
TokensOnWire ==
    {e.token : e \in issued}
       \cup {Tamper(e.token) : e \in issued}
       \cup {Garbage}

\* The Authorization headers a client can send.
Headers ==
    {NoHeader, [present |-> TRUE, text |-> <<>>], [present |-> TRUE, text |-> <<Space>>]}
       \cup {[present |-> TRUE, text |-> <<TokenWord(t)>>] : t \in TokensOnWire}
       \cup {[present |-> TRUE, text |-> <<Word(s), Space, TokenWord(t)>>] :
                s \in Schemes, t \in TokensOnWire}
       \cup {[present |-> TRUE, text |-> <<Space, Word("Bearer"), Space, TokenWord(t), Space>>] :
                t \in TokensOnWire}
       \cup {[present |-> TRUE, text |-> <<Word("Bearer"), Space, TokenWord(t), Space, TokenWord(t)>>] :
                t \in TokensOnWire}

\* A request to a wrapped operation.
Request(header) ==
    /\ gate' = decorated(header, clock)
    /\ UNCHANGED <<clock, issued, users>>
    /\ UNCHANGED storeVars

\* Time passes.
Tick ==
    /\ \E t \in ClockValues : t > clock /\ clock' = t
    /\ UNCHANGED <<issued, gate, users>>
    /\ UNCHANGED storeVars

GenerateToken == \E u \in Identities : generate_token(u.id, u.username, u.role)

GatedRequest == \E header \in Headers : Request(header)

InitToken == InitStore /\ InitRest

NextToken == Tick \/ GenerateToken \/ GatedRequest

SpecToken == InitToken /\ [][NextToken]_vars

----------------------------------------------------------------------------
(* Properties of the gate *)

\* How the header of the last request reads.
HeaderMissing == ~gate.header.present \/ gate.header.text = <<>>
HeaderParts == Split(gate.header.text)
HeaderMalformed ==
    /\ ~HeaderMissing
    /\ (Len(HeaderParts) # 2 \/ Lower(HeaderParts[1]) # "bearer")
HeaderWellFormed == ~HeaderMissing /\ ~HeaderMalformed
\* The token of a well-formed header.
HeaderToken == WordToken(HeaderParts[2])
TokenInvalid == HeaderToken.kind # "jwt" \/ HeaderToken.sig # "good"
TokenExpired == ~TokenInvalid /\ HeaderToken.payload.exp * TicksPerSec <= gate.now
TokenIdentity ==
    [id |-> HeaderToken.payload.id, username |-> HeaderToken.payload.username,
     role |-> HeaderToken.payload.role]

\* C3: the wrapped operation is invoked exactly when validation succeeds. A missing
\* header, a header that is not two parts with scheme 'bearer' in any case, an expired
\* token and an invalid token each get the 401 answer and no call of the operation;
\* otherwise the operation is called once with the identity {id, username, role} of
\* the token and its result is the answer.
C3_InvokedIffValid ==
    gate.made =>
        IF HeaderMissing \/ HeaderMalformed \/ TokenInvalid \/ TokenExpired
        THEN /\ gate.status = Unauthorized
             /\ gate.calls = <<>>
             /\ gate.error # ""
        ELSE /\ gate.calls = <<TokenIdentity>>
             /\ gate.returned = WrappedOperation(TokenIdentity)
             /\ gate.error = ""
             /\ gate.status # Unauthorized

\* A request with the scheme written BEARER that went through to the operation.
C3_Witness ==
    /\ gate.made
    /\ Len(gate.calls) = 1
    /\ gate.header.text[1] = Word("BEARER")

\* The embedded expiration of the token of the last request is earlier than the clock
\* at its validation.
PastExpiration ==
    /\ gate.made
    /\ HeaderWellFormed
    /\ HeaderToken.kind = "jwt"
    /\ HeaderToken.payload.exp * TicksPerSec < gate.now

\* C4 as claimed: a token past its expiration gets the expired-token answer and no
\* identity, whatever else is true of the token.
C4_PastExpirationAlwaysExpiredError ==
    PastExpiration => (gate.error = "Token has expired!" /\ gate.calls = <<>>)

\* C4: a token past its expiration never resolves an identity nor reaches the wrapped
\* operation, and gets the 401 answer; the answer is the expired-token one when the
\* token's signature is valid, and the invalid-token one when it is not.
C4_PastExpirationNeverDecodes ==
    PastExpiration =>
        /\ gate.calls = <<>>
        /\ gate.returned = NoIdentity
        /\ gate.status = Unauthorized
        /\ gate.error = IF HeaderToken.sig = "good" THEN "Token has expired!"
                        ELSE "Invalid token!"

\* A token of generate_token, validated after its expiration and answered as expired.
C4_Witness ==
    /\ PastExpiration
    /\ \E e \in issued : e.token = HeaderToken
    /\ gate.error = "Token has expired!"

====
